---- MODULE Spec2Model ----
(***************************************************************************)
(* Model of src/js/components/application.js: the Application object that  *)
(* loads the groups of a manifest through require(), registers the loaded  *)
(* modules into its Containers and into the BeeHive, and activates them.   *)
(***************************************************************************)
EXTENDS Integers, Sequences, FiniteSets, TLC

VARIABLES
  registry,    \* section -> Container content: sequence of [name, obj], in insertion order
  warnings,    \* console.warn lines of _registerLoadedModules
  registered,  \* the sections the last .then() callback of loadModules registered, in order
  calls,       \* one record per loadModules call, in order of issue
  activated,   \* this.__activated
  barbarianRegistry,  \* this.__barbarianRegistry: pubsub key id -> [category, name]
  activations, \* the activate calls of the last activate() run, in the order made
  errors,      \* the components the last activate() run logged "Error activating" for
  raised,      \* the last activate() run ended with an exception thrown to its caller
  behaviours,  \* what the activate of each component did in the last activate() run
  refused,     \* the children the last activate() run found their derived name taken for
  runs,        \* number of activate() runs
  destroyed,   \* destroy() was called
  nextKey,     \* number of pubsub keys handed out so far
  things,      \* a ListOfThingsCollection: its models in comparator order, and its fields
  shown        \* the last updateIndexes / showRange call: arguments, result, 'show:missing'

activation ==
  <<activated, barbarianRegistry, activations, errors, raised, behaviours, refused, runs,
    destroyed, nextKey>>

application == <<registry, warnings, registered, calls, activation>>

listOfThings == <<things, shown>>

vars == <<application, listOfThings>>

(* ------------------------------ bounds -------------------------------- *)

\* number of loadModules calls of a run
MaxCalls == 2
\* number of groups of one manifest
MaxGroups == 2
\* number of activate() runs
MaxActivations == 2
\* number of components of one activate() run that do not simply return from activate
MaxOdd == 1
\* greatest resultsIndex of a record of a ListOfThingsCollection
MaxIndex == 4

(* ------------------------------ values -------------------------------- *)

\* the order in which loadModules walks the groups (core's four, plugins, widgets)
Sections == <<"controllers", "modules", "services", "objects", "plugins", "widgets">>

SectionSet == {Sections[i] : i \in 1..Len(Sections)}

Names == {"A", "B"}

\* what an identifier resolves to:
\*   ctor     a function (it has a prototype)
\*   plain    an object with no property named after a component
\*   ownA     an object whose own property "A" holds an object
\*   ownAnull an object whose own property "A" holds null
\*   null     an empty module
Shapes == {"ctor", "plain", "ownA", "ownAnull", "null"}

Undefined == [kind |-> "undefined", shape |-> "", ver |-> 0, falsy |-> TRUE, site |-> <<>>]

\* an identifier of a prescription; the impl of a valid group is a string
StringImpl(shape, ver) == [isString |-> TRUE, shape |-> shape, ver |-> ver]
NumberImpl == [isString |-> FALSE, shape |-> "", ver |-> 0]

\* require(): the module an identifier resolves to
ModuleOf(impl) ==
  [kind |-> "module", shape |-> impl.shape, ver |-> impl.ver, falsy |-> (impl.shape = "null"),
   site |-> <<>>]

HasPrototype(module) == module.kind = "module" /\ module.shape = "ctor"

HasOwnProperty(module, key) ==
  module.kind = "module" /\ module.shape \in {"ownA", "ownAnull"} /\ key = "A"

\* new module(): a new object each time it is evaluated, told apart by where it was made
Construct(module, section, key) ==
  [kind |-> "constructed", shape |-> module.shape, ver |-> module.ver, falsy |-> FALSE,
   site |-> <<section, key>>]

\* module[key]
PropertyOf(module, key) ==
  [kind |-> "property", shape |-> module.shape, ver |-> module.ver,
   falsy |-> (module.shape = "ownAnull"), site |-> <<>>]

(* ----------------------------- Container ------------------------------ *)

Range(seq) == {seq[i] : i \in 1..Len(seq)}

ContainerHas(container, name) == \E i \in 1..Len(container) : container[i].name = name

ContainerGet(container, name) ==
  IF ContainerHas(container, name)
  THEN (CHOOSE e \in Range(container) : e.name = name).obj
  ELSE Undefined

ContainerRemove(container, name) == SelectSeq(container, LAMBDA e : e.name # name)

ContainerAdd(container, name, obj) ==
  IF ContainerHas(container, name)
  THEN [i \in 1..Len(container) |->
          IF container[i].name = name THEN [name |-> name, obj |-> obj] ELSE container[i]]
  ELSE Append(container, [name |-> name, obj |-> obj])

\* the services and objects of the BeeHive
BeeHiveHas(container, name) == \E i \in 1..Len(container) : container[i].name = name

BeeHiveRemove(container, name) == SelectSeq(container, LAMBDA e : e.name # name)

BeeHiveAdd(container, name, obj) ==
  IF BeeHiveHas(container, name)
  THEN [i \in 1..Len(container) |->
          IF container[i].name = name THEN [name |-> name, obj |-> obj] ELSE container[i]]
  ELSE Append(container, [name |-> name, obj |-> obj])

InBeeHive(section) == section \in {"services", "objects"}

\* hasX(name) and getX(name) of the Application
HasKey(reg, section, name) ==
  IF InBeeHive(section) THEN BeeHiveHas(reg[section], name) ELSE ContainerHas(reg[section], name)

GetKey(reg, section, name) == ContainerGet(reg[section], name)

RemoveKey(reg, section, name) ==
  [reg EXCEPT ![section] =
     IF InBeeHive(section) THEN BeeHiveRemove(@, name) ELSE ContainerRemove(@, name)]

AddKey(reg, section, name, obj) ==
  [reg EXCEPT ![section] =
     IF InBeeHive(section) THEN BeeHiveAdd(@, name, obj) ELSE ContainerAdd(@, name, obj)]

(* ----------------------- _registerLoadedModules ----------------------- *)

\* createInstance of every section but modules
CreateInstanceDefault(section, key, module) ==
  IF module.falsy THEN Undefined
  ELSE IF HasPrototype(module) THEN Construct(module, section, key)
  ELSE IF HasOwnProperty(module, key) THEN PropertyOf(module, key)
  ELSE module

\* a modules section that instantiates like the other sections
CreateInstanceModules_Constructs(key, module) == CreateInstanceDefault("modules", key, module)

\* createInstance of the modules section
CreateInstanceModules(key, module) == module

CreateInstance(section, key, module) ==
  IF section = "modules" THEN CreateInstanceModules(key, module)
  ELSE CreateInstanceDefault(section, key, module)

\* a loop body that computes the instance before it removes the existing entry
RegisterOne_KeepsOld(st, section, key, module) ==
  LET had  == HasKey(st.reg, section, key)
      inst == CreateInstance(section, key, module)
  IN IF inst.falsy
     THEN [reg |-> st.reg, warn |-> st.warn \cup {[kind |-> "skip", section |-> section, key |-> key]}]
     ELSE [reg  |-> AddKey(IF had THEN RemoveKey(st.reg, section, key) ELSE st.reg, section, key, inst),
           warn |-> IF had
                    THEN st.warn \cup {[kind |-> "overwrite", section |-> section, key |-> key]}
                    ELSE st.warn]

\* the body of the loop over _.pairs(modules); st is [reg, warn]
RegisterOne(st, section, key, module) ==
  LET had   == HasKey(st.reg, section, key)
      reg1  == IF had THEN RemoveKey(st.reg, section, key) ELSE st.reg
      warn1 == IF had
               THEN st.warn \cup {[kind |-> "overwrite", section |-> section, key |-> key]}
               ELSE st.warn
      inst  == CreateInstance(section, key, module)
  IN IF inst.falsy
     THEN [reg |-> reg1, warn |-> warn1 \cup {[kind |-> "skip", section |-> section, key |-> key]}]
     ELSE [reg |-> AddKey(reg1, section, key, inst), warn |-> warn1]

RECURSIVE RegisterPairs(_, _, _, _)
RegisterPairs(st, section, modules, i) ==
  IF i > Len(modules) THEN st
  ELSE RegisterPairs(RegisterOne(st, section, modules[i].name, modules[i].module),
                     section, modules, i + 1)

RegisterLoadedModules(st, section, modules) == RegisterPairs(st, section, modules, 1)

(* ---------------------------- loadModules ----------------------------- *)

\* _checkPrescription: the keys of an object are strings, the impls must be
CheckPrescription(prescription) ==
  \A i \in 1..Len(prescription) : prescription[i].impl.isString

\* the groups loadModules finds in the config, in the order it walks them
GroupsOf(config) == SelectSeq(Sections, LAMBDA s : s \in DOMAIN config)

\* position of the first group whose _checkPrescription throws, 0 when none does
FirstInvalid(config) ==
  LET groups == GroupsOf(config)
      bad    == {i \in 1..Len(groups) : ~CheckPrescription(config[groups[i]])}
  IN IF bad = {} THEN 0 ELSE CHOOSE i \in bad : \A j \in bad : i <= j

\* the groups whose _loadModules ran to its require() before loadModules returned or threw
Dispatched(config) ==
  LET groups == GroupsOf(config)
      k      == FirstInvalid(config)
  IN IF k = 0 THEN groups ELSE SubSeq(groups, 1, k - 1)

\* a master deferred that resolves with the first promise that resolves
When_FirstResolved(states) ==
  IF \E i \in 1..Len(states) : states[i] = "resolved" THEN "resolved"
  ELSE IF \E i \in 1..Len(states) : states[i] = "rejected" THEN "rejected"
  ELSE IF states = <<>> THEN "resolved"
  ELSE "pending"

\* a master deferred that waits for every promise before it rejects
When_WaitsForAll(states) ==
  IF \E i \in 1..Len(states) : states[i] = "pending" THEN "pending"
  ELSE IF \E i \in 1..Len(states) : states[i] = "rejected" THEN "rejected"
  ELSE "resolved"

\* $.when.apply($, promises): the state of the master deferred
When(states) ==
  IF \E i \in 1..Len(states) : states[i] = "rejected" THEN "rejected"
  ELSE IF \A i \in 1..Len(states) : states[i] = "resolved" THEN "resolved"
  ELSE "pending"

\* the arguments $.when hands to .then(): one [section, ret] array per promise when
\* there are several promises, the bare section and ret of the promise when there is one
ThenArguments(order, ret) ==
  IF Len(order) = 1
  THEN << [isArray |-> FALSE, section |-> order[1], modules |-> <<>>],
          [isArray |-> FALSE, section |-> order[1], modules |-> ret[order[1]]] >>
  ELSE [i \in 1..Len(order) |->
          [isArray |-> TRUE, section |-> order[i], modules |-> ret[order[i]]]]

RECURSIVE RegisterArguments(_, _, _)
RegisterArguments(st, args, i) ==
  IF i > Len(args) THEN st
  ELSE RegisterArguments(
         IF args[i].isArray
         THEN RegisterLoadedModules(st, args[i].section, args[i].modules)
         ELSE st,
         args, i + 1)

\* the sections the .then() callback hands to _registerLoadedModules, in the order of
\* its calls
RegisteredSections(args) ==
  LET arrays == SelectSeq(args, LAMBDA a : a.isArray)
  IN [i \in 1..Len(arrays) |-> arrays[i].section]

\* the .then() callback of loadModules
ThenCallback(st, order, ret) == RegisterArguments(st, ThenArguments(order, ret), 1)

StatesOf(call, defer) == [i \in 1..Len(call.order) |-> defer[call.order[i]]]

\* the state of bigPromise after the group deferreds have moved to defer
BigAfter(call, defer) == IF call.big = "pending" THEN When(StatesOf(call, defer)) ELSE call.big

NewCall(config) ==
  LET order == Dispatched(config)
      secs  == Range(order)
      threw == FirstInvalid(config) # 0
  IN [ config |-> config,
       order  |-> order,
       defer  |-> [s \in secs |-> "pending"],
       req    |-> [s \in secs |-> "outstanding"],
       timer  |-> [s \in secs |-> "armed"],
       ret    |-> [s \in secs |-> <<>>],
       threw  |-> threw,
       big    |-> IF threw THEN "none" ELSE When([i \in 1..Len(order) |-> "pending"]) ]

\* nothing more happens to a call: every request answered and every timer fired
Quiescent(call) ==
  \A s \in Range(call.order) : call.req[s] = "answered" /\ call.timer[s] = "fired"

\* the resolver has answered every request of a call
Answered(call) == \A s \in Range(call.order) : call.req[s] = "answered"

LoadModules(config) ==
  /\ Len(calls) < MaxCalls
  /\ calls' = Append(calls, NewCall(config))
  /\ UNCHANGED <<registry, warnings, registered, activation, listOfThings>>

\* the modules require() hands to the callback, zipped to their names
Zip(prescription) ==
  [i \in 1..Len(prescription) |->
     [name |-> prescription[i].name, module |-> ModuleOf(prescription[i].impl)]]

\* a deferred that takes every resolve and reject
Settle_Overwrites(state, to) == to

\* defer.resolve / defer.reject: a settled deferred ignores them
Settle(state, to) == IF state = "pending" THEN to ELSE state

\* the callback of require(): _loadModules, lines 307-317
RequireCallback(c, s) ==
  /\ c \in 1..Len(calls)
  /\ s \in Range(calls[c].order)
  /\ calls[c].req[s] = "outstanding"
  /\ LET call  == calls[c]
         ret   == [call.ret EXCEPT ![s] = Zip(call.config[s])]
         defer == [call.defer EXCEPT ![s] = Settle(@, "resolved")]
         big   == BigAfter(call, defer)
         st    == IF call.big = "pending" /\ big = "resolved"
                  THEN ThenCallback([reg |-> registry, warn |-> warnings], call.order, ret)
                  ELSE [reg |-> registry, warn |-> warnings]
     IN /\ calls' = [calls EXCEPT ![c] =
                       [call EXCEPT !.req[s] = "answered", !.ret = ret,
                                    !.defer = defer, !.big = big]]
        /\ registry' = st.reg
        /\ warnings' = st.warn
        /\ registered' = IF call.big = "pending" /\ big = "resolved"
                         THEN RegisteredSections(ThenArguments(call.order, ret))
                         ELSE registered
  /\ UNCHANGED <<activation, listOfThings>>

\* the errback of require(): _loadModules, lines 319-327 (ignoreErrors is never passed)
RequireErrback(c, s) ==
  /\ c \in 1..Len(calls)
  /\ s \in Range(calls[c].order)
  /\ calls[c].req[s] = "outstanding"
  /\ LET call  == calls[c]
         defer == [call.defer EXCEPT ![s] = Settle(@, "rejected")]
     IN calls' = [calls EXCEPT ![c] =
                    [call EXCEPT !.req[s] = "answered", !.defer = defer,
                                 !.big = BigAfter(call, defer)]]
  /\ UNCHANGED <<registry, warnings, registered, activation, listOfThings>>

\* a timer function that leaves the deferred alone
TimeoutState_Ignores(state) == state

\* the function _setTimeout scheduled
TimeoutState(state) == IF state # "resolved" THEN Settle(state, "rejected") ELSE state

Timeout(c, s) ==
  /\ c \in 1..Len(calls)
  /\ s \in Range(calls[c].order)
  /\ calls[c].timer[s] = "armed"
  /\ LET call  == calls[c]
         defer == [call.defer EXCEPT ![s] = TimeoutState(@)]
     IN calls' = [calls EXCEPT ![c] =
                    [call EXCEPT !.timer[s] = "fired", !.defer = defer,
                                 !.big = BigAfter(call, defer)]]
  /\ UNCHANGED <<registry, warnings, registered, activation, listOfThings>>

(* ------------------------------ activate ------------------------------ *)

\* what the activate of a component does when it is called:
\*   none    the component has no activate
\*   ok      it returns nothing
\*   throws  it throws
\*   spawn   it returns children
BehOk == [kind |-> "ok", children |-> <<>>]

Behaviour(b, section, name) ==
  IF <<section, name>> \in DOMAIN b THEN b[<<section, name>>] ELSE BehOk

\* 'activate' in plugin
HasActivate(beh) == beh.kind # "none"

\* this.__barbarianRegistry[id] = value
Put(barb, id, value) ==
  [k \in DOMAIN barb \cup {id} |-> IF k = id THEN value ELSE barb[k]]

\* the object of a child
ChildObject(name, id) ==
  [kind |-> "child", shape |-> name, ver |-> id, falsy |-> FALSE, site |-> <<>>]

ContainerOf(category) == IF category = "widget" THEN "widgets" ELSE "plugins"

\* the name of a child: prefix + '-' + (child.name || key)
ChildName(prefix, child) == prefix \o "-" \o (IF child.name # "" THEN child.name ELSE child.key)

\* the key id of child.beehive: a hardened instance of its own, or the one its parent was given
ChildKey(st, child, parentKey) == IF child.ownBeehive THEN st.key + 1 ELSE parentKey

\* a loop body that adds the child to the Container of the other category
RegisterBarbarianChild_OtherContainer(st, category, name, id) ==
  IF ContainerHas(st.reg[ContainerOf(category)], name)
  THEN [st EXCEPT !.key = IF id > @ THEN id ELSE @,
                  !.barb = Put(@, id, [category |-> category, name |-> name]),
                  !.refused = @ \cup {[category |-> category, name |-> name, id |-> id]},
                  !.thrown = TRUE]
  ELSE [st EXCEPT !.key = IF id > @ THEN id ELSE @,
                  !.barb = Put(@, id, [category |-> category, name |-> name]),
                  !.reg[IF category = "widget" THEN "plugins" ELSE "widgets"] =
                     ContainerAdd(@, name, ChildObject(name, id))]

\* the body of the loop of _registerBarbarianChildren; st.thrown is set by its throw
RegisterBarbarianChild(st, category, name, id) ==
  IF ContainerHas(st.reg[ContainerOf(category)], name)
  THEN [st EXCEPT !.key = IF id > @ THEN id ELSE @,
                  !.barb = Put(@, id, [category |-> category, name |-> name]),
                  !.refused = @ \cup {[category |-> category, name |-> name, id |-> id]},
                  !.thrown = TRUE]
  ELSE [st EXCEPT !.key = IF id > @ THEN id ELSE @,
                  !.barb = Put(@, id, [category |-> category, name |-> name]),
                  !.reg[ContainerOf(category)] = ContainerAdd(@, name, ChildObject(name, id))]

\* _registerBarbarianChildren from the j-th child on
RECURSIVE RegisterBarbarianChildren(_, _, _, _, _, _)
RegisterBarbarianChildren(st, category, prefix, children, parentKey, j) ==
  IF j > Len(children) \/ st.thrown THEN st
  ELSE RegisterBarbarianChildren(
         RegisterBarbarianChild(st, category, ChildName(prefix, children[j]),
                                ChildKey(st, children[j], parentKey)),
         category, prefix, children, parentKey, j + 1)

Call(tier, name, arg, view) == [tier |-> tier, name |-> name, arg |-> arg, view |-> view]

\* a controllers loop that goes on after a controller has thrown
CallController_Swallows(st, name, beh) ==
  [st EXCEPT !.log = Append(@, Call("controllers", name, "beehive, app", 0))]

\* the activate of a controller is called; what it throws leaves activate()
CallController(st, name, beh) ==
  [st EXCEPT !.log = Append(@, Call("controllers", name, "beehive, app", 0)),
             !.raised = (beh.kind = "throws")]

\* the loop over getAllControllers(): nothing is caught
RECURSIVE ActivateControllers(_, _, _, _)
ActivateControllers(st, b, all, i) ==
  IF i > Len(all) \/ st.raised THEN st
  ELSE ActivateControllers(
         IF HasActivate(Behaviour(b, "controllers", all[i].name))
         THEN CallController(st, all[i].name, Behaviour(b, "controllers", all[i].name))
         ELSE st,
         b, all, i + 1)

\* a modules loop without its try
CallModule_Uncaught(st, name, beh) ==
  [st EXCEPT !.log = Append(@, Call("modules", name, "beehive", 0)),
             !.raised = (beh.kind = "throws")]

\* the activate of a module is called in its try; what it throws is logged
CallModule(st, name, beh) ==
  [st EXCEPT !.log = Append(@, Call("modules", name, "beehive", 0)),
             !.errors = IF beh.kind = "throws" THEN @ \cup {<<"modules", name>>} ELSE @]

\* the loop over getAllModules()
RECURSIVE ActivateModules(_, _, _, _)
ActivateModules(st, b, all, i) ==
  IF i > Len(all) THEN st
  ELSE ActivateModules(
         IF HasActivate(Behaviour(b, "modules", all[i].name))
         THEN CallModule(st, all[i].name, Behaviour(b, "modules", all[i].name))
         ELSE st,
         b, all, i + 1)

\* a loop that hands the view it obtained first to every plugin and widget
CallBarbarian_SharedView(st, section, name) ==
  [st EXCEPT !.log = Append(@, Call(section, name, "hardened", st.key + 1))]

\* plugin.activate(hardenedBee = beehive.getHardenedInstance()): a new view, with a key of its own
CallBarbarian(st, section, name) ==
  [st EXCEPT !.key = @ + 1, !.log = Append(@, Call(section, name, "hardened", st.key + 1))]

\* the catch of the try: the error is logged
Catch(st, section, name) ==
  IF st.thrown THEN [st EXCEPT !.thrown = FALSE, !.errors = @ \cup {<<section, name>>}] ELSE st

\* what follows the call of activate in the try: the registry entry, then the children
AfterActivate(st, category, name, beh, id) ==
  IF beh.kind = "throws" THEN [st EXCEPT !.thrown = TRUE]
  ELSE RegisterBarbarianChildren(
         [st EXCEPT !.barb = Put(@, id, [category |-> category, name |-> name])],
         category, name, beh.children, id, 1)

\* the body of the plugins loop and of the widgets loop, for one element
ActivateBarbarian(st, category, name, beh) ==
  IF ~HasActivate(beh) THEN st
  ELSE Catch(AfterActivate(CallBarbarian(st, ContainerOf(category), name),
                           category, name, beh, st.key + 1),
             ContainerOf(category), name)

\* the loop over getAllPlugins() and the loop over getAllWidgets()
RECURSIVE ActivateBarbarians(_, _, _, _, _)
ActivateBarbarians(st, b, category, all, i) ==
  IF i > Len(all) THEN st
  ELSE ActivateBarbarians(
         ActivateBarbarian(st, category, all[i].name,
                           Behaviour(b, ContainerOf(category), all[i].name)),
         b, category, all, i + 1)

\* getAllControllers() .. getAllWidgets(): the pairs of a Container when it is called
GetAll(reg, section) == reg[section]

\* beehive.activate(beehive): what it throws leaves activate()
BeeHiveActivate(st, beehiveThrows) ==
  [st EXCEPT !.log = <<Call("beehive", "", "beehive", 0)>>, !.errors = {},
             !.raised = beehiveThrows]

ControllersLoop(st, b) ==
  IF st.raised THEN st ELSE ActivateControllers(st, b, GetAll(st.reg, "controllers"), 1)

ModulesLoop(st, b) ==
  IF st.raised THEN st ELSE ActivateModules(st, b, GetAll(st.reg, "modules"), 1)

\* a loop over the Container itself: it meets what is added while it runs
RECURSIVE ActivateLive(_, _, _, _)
ActivateLive(st, b, category, i) ==
  IF i > Len(st.reg[ContainerOf(category)]) THEN st
  ELSE ActivateLive(
         ActivateBarbarian(st, category, st.reg[ContainerOf(category)][i].name,
                           Behaviour(b, ContainerOf(category),
                                     st.reg[ContainerOf(category)][i].name)),
         b, category, i + 1)

\* a plugins loop over the live Container instead of the pairs of getAllPlugins()
PluginsLoop_Live(st, b) ==
  IF st.raised THEN st ELSE ActivateLive(st, b, "plugin", 1)

PluginsLoop(st, b) ==
  IF st.raised THEN st ELSE ActivateBarbarians(st, b, "plugin", GetAll(st.reg, "plugins"), 1)

WidgetsLoop(st, b) ==
  IF st.raised THEN st ELSE ActivateBarbarians(st, b, "widget", GetAll(st.reg, "widgets"), 1)

\* a flag that is only set when the cascade logged no error
SetActivated_WhenClean(st) ==
  IF st.raised \/ st.errors # {} THEN st ELSE [st EXCEPT !.activated = TRUE]

\* this.__activated = true
SetActivated(st) == IF st.raised THEN st ELSE [st EXCEPT !.activated = TRUE]

\* activate() with the widgets loop ahead of the plugins loop
ActivateRun_WidgetsFirst(st, b, beehiveThrows) ==
  SetActivated(PluginsLoop(WidgetsLoop(ModulesLoop(ControllersLoop(
    BeeHiveActivate(st, beehiveThrows), b), b), b), b))

\* activate(): beehive.activate, then the four loops, then this.__activated = true
ActivateRun(st, b, beehiveThrows) ==
  SetActivated(WidgetsLoop(PluginsLoop(ModulesLoop(ControllersLoop(
    BeeHiveActivate(st, beehiveThrows), b), b), b), b))

Activate(b, beehiveThrows) ==
  /\ runs < MaxActivations
  /\ \E st \in {ActivateRun([reg |-> registry, barb |-> barbarianRegistry, log |-> <<>>,
                             errors |-> {}, raised |-> FALSE, thrown |-> FALSE,
                             refused |-> {},
                             key |-> nextKey, activated |-> activated],
                            b, beehiveThrows)} :
        /\ registry' = st.reg
        /\ barbarianRegistry' = st.barb
        /\ activations' = st.log
        /\ errors' = st.errors
        /\ raised' = st.raised
        /\ refused' = st.refused
        /\ nextKey' = st.key
        /\ activated' = st.activated
  /\ behaviours' = b
  /\ runs' = runs + 1
  /\ UNCHANGED <<warnings, registered, calls, destroyed, listOfThings>>

\* getPluginOrWidgetName(psk): the entry category:name of the key, or undefined
GetPluginOrWidgetName(barb, psk) == IF psk \in DOMAIN barb THEN barb[psk] ELSE Undefined

\* the Error getPluginOrWidgetByPubSubKey throws
Eeeek == [kind |-> "error", shape |-> "", ver |-> 0, falsy |-> FALSE, site |-> <<>>]

\* getPluginOrWidgetByPubSubKey(psk): k.split(':')[1] is the name of the entry (no name
\* of the model holds a ':'); the widgets are asked first, then the plugins, whatever
\* the category k.split(':')[0]
GetPluginOrWidgetByPubSubKey(reg, barb, psk) ==
  IF GetPluginOrWidgetName(barb, psk) = Undefined THEN Undefined
  ELSE IF ContainerHas(reg["widgets"], GetPluginOrWidgetName(barb, psk).name)
  THEN ContainerGet(reg["widgets"], GetPluginOrWidgetName(barb, psk).name)
  ELSE IF ContainerHas(reg["plugins"], GetPluginOrWidgetName(barb, psk).name)
  THEN ContainerGet(reg["plugins"], GetPluginOrWidgetName(barb, psk).name)
  ELSE Eeeek

\* destroy(): this.getBeeHive().destroy(); nothing of the Application itself is written
Destroy ==
  /\ ~destroyed
  /\ destroyed' = TRUE
  /\ UNCHANGED <<registry, warnings, registered, calls, activated, barbarianRegistry, activations,
                 errors, raised, behaviours, refused, runs, nextKey, listOfThings>>

\* isActivated(): this.__activated || false
IsActivated(flag) == flag \/ FALSE

Issued(c) == c \in 1..Len(calls)

GroupOf(c, s) == Issued(c) /\ s \in Range(calls[c].order)

(* ------------------------------ inputs -------------------------------- *)

\* the prescriptions of the n-th call: its identifiers resolve to modules of its own
Prescriptions(n) ==
  { << [name |-> "A", impl |-> StringImpl("plain", n)] >>,
    << [name |-> "A", impl |-> NumberImpl] >> }

Manifests(n) ==
  UNION { [S -> Prescriptions(n)] : S \in {T \in SUBSET SectionSet : Cardinality(T) <= MaxGroups} }

\* prescriptions whose identifiers resolve, between them, to modules of every shape
PolicyPrescriptions(n) ==
  { << [name |-> "A", impl |-> StringImpl(sh, n)] >> : sh \in {"ctor", "plain"} }
  \cup
  { << [name |-> "A", impl |-> StringImpl("null", n)],
       [name |-> "B", impl |-> StringImpl("plain", n)] >>,
    << [name |-> "A", impl |-> StringImpl("ownAnull", n)],
       [name |-> "B", impl |-> StringImpl("ownA", n)] >>,
    << [name |-> "B", impl |-> StringImpl("ctor", n)],
       [name |-> "A", impl |-> StringImpl("ownA", n)] >> }

\* manifests that carry one such prescription in each of their groups
PolicyManifests(n) ==
  UNION { { [s \in S |-> p] : p \in PolicyPrescriptions(n) } :
          S \in {T \in SUBSET SectionSet : Cardinality(T) \in 1..MaxGroups} }

\* the groups whose components activate() walks
ActivationSections == {"controllers", "modules", "plugins", "widgets"}

\* manifests of the components to activate, the same prescription in each group
ActivationManifests(n) ==
  UNION { { [s \in S |-> p] :
              p \in { << [name |-> "A", impl |-> StringImpl("plain", n)] >>,
                      << [name |-> "A", impl |-> StringImpl("plain", n)],
                         [name |-> "B", impl |-> StringImpl("ctor", n)] >>,
                      << [name |-> "A", impl |-> StringImpl("ctor", n)],
                         [name |-> "A-x", impl |-> StringImpl("ctor", n)] >> } } :
          S \in SUBSET ActivationSections }

\* manifests of two groups that load the name A; the modules of the n-th call are its own
OverlapManifests(n) ==
  { [s \in S |-> << [name |-> "A", impl |-> StringImpl("plain", n)] >>] :
      S \in { {"controllers", "widgets"}, {"modules", "widgets"} } }

\* manifests of a later load whose identifier for A resolves to an empty module
ReloadManifests(n) ==
  { [s \in S |-> << [name |-> "A", impl |-> StringImpl("null", n)] >>] :
      S \in { {"modules", "plugins"}, {"modules", "widgets"}, {"plugins", "widgets"} } }

\* the children an activate returns
ChildSets ==
  { << [name |-> "x", key |-> "0", ownBeehive |-> TRUE] >>,
    << [name |-> "", key |-> "0", ownBeehive |-> TRUE],
       [name |-> "x", key |-> "1", ownBeehive |-> FALSE] >>,
    << [name |-> "x", key |-> "0", ownBeehive |-> TRUE],
       [name |-> "y", key |-> "1", ownBeehive |-> TRUE] >> }

OddBehaviours(section) ==
  { [kind |-> k, children |-> <<>>] : k \in {"none", "throws"} }
  \cup (IF section \in {"plugins", "widgets"}
        THEN { [kind |-> "spawn", children |-> ch] : ch \in ChildSets }
        ELSE {})

ComponentsOf(reg) ==
  UNION { { <<s, reg[s][i].name>> : i \in 1..Len(reg[s]) } : s \in ActivationSections }

\* what the components do in one run: all but n of them return from their activate
RECURSIVE Deviations(_, _)
Deviations(comps, n) ==
  IF n = 0 THEN { [x \in {} |-> BehOk] }
  ELSE Deviations(comps, n - 1)
       \cup UNION { { (x :> beh) @@ b : b \in Deviations(comps, n - 1),
                                        beh \in OddBehaviours(x[1]) } :
                    x \in comps }

BehaviourChoices(reg) == Deviations(ComponentsOf(reg), MaxOdd)

\* what the components do in a run where any number of them has no activate or throws
ThrowChoices(reg) ==
  [ComponentsOf(reg) -> {BehOk} \cup {[kind |-> k, children |-> <<>>] : k \in {"none", "throws"}}]

(* ----------------------- ListOfThingsCollection ----------------------- *)

\* an argument that was not given, an argument n, and a variable that holds null
NotGiven == <<>>
Given(n) == <<n>>
Null == <<>>

\* _.isNumber(arg)
IsNumber(arg) == arg # NotGiven

\* a record of the collection: ItemModel has visible: false by default
ItemModel(resultsIndex, emptyPlaceholder) ==
  [resultsIndex |-> resultsIndex, emptyPlaceholder |-> emptyPlaceholder, visible |-> FALSE]

\* initialize(): the collection with its models
NewCollection(models) ==
  [models |-> models, numVisible |-> 0, currentStartIndex |-> 0, currentEndIndex |-> 0]

\* _.range(a, b): a, a+1, .., b-1
UnderscoreRange(a, b) == IF b > a THEN [k \in 1..(b - a) |-> a + k - 1] ELSE <<>>

\* the body of this.each(...) in updateIndexes for one model; st.models collects the
\* models as the loop leaves them
EachModel(st, model, start, end) ==
  IF model.emptyPlaceholder
  THEN [st EXCEPT !.models = Append(@, model)]
  ELSE LET rIdx == model.resultsIndex
           found == IF st.lastIdx # Null /\ rIdx # st.lastIdx[1] + 1
                    THEN UnderscoreRange(st.lastIdx[1] + 1, rIdx)
                    ELSE <<>>
       IN IF rIdx >= start /\ rIdx < end
          THEN [st EXCEPT !.models = Append(@, [model EXCEPT !.visible = TRUE]),
                          !.gaps = @ \o found,
                          !.lastIdx = <<rIdx>>,
                          !.currStart = IF @ = Null THEN <<rIdx>> ELSE @,
                          !.visible = @ + 1,
                          !.currEnd = rIdx]
          ELSE [st EXCEPT !.models = Append(@, [model EXCEPT !.visible = FALSE]),
                          !.gaps = @ \o found,
                          !.lastIdx = <<rIdx>>]

\* this.each(function(model) {...}) from the i-th model on
RECURSIVE Each(_, _, _, _, _)
Each(st, models, start, end, i) ==
  IF i > Len(models) THEN st
  ELSE Each(EachModel(st, models[i], start, end), models, start, end, i + 1)

\* the first for loop: the gaps from the first one greater than end on are dropped
SliceAboveEnd(gaps, end) ==
  IF \E i \in 1..Len(gaps) : gaps[i] > end
  THEN SubSeq(gaps, 1, (CHOOSE i \in 1..Len(gaps) :
                          /\ gaps[i] > end
                          /\ \A k \in 1..(i - 1) : ~(gaps[k] > end)) - 1)
  ELSE gaps

\* the second for loop: i runs from gaps.length down to 1 over positions counted from 0,
\* that is from the position after the last gap down to the second gap, and
\* gaps.slice(i, gaps.length) keeps the gap at position i
SliceBelowStart(gaps, start) ==
  IF \E i \in 2..Len(gaps) : gaps[i] < start
  THEN SubSeq(gaps, CHOOSE i \in 2..Len(gaps) :
                      /\ gaps[i] < start
                      /\ \A k \in (i + 1)..Len(gaps) : ~(gaps[k] < start),
              Len(gaps))
  ELSE gaps

\* self.add({resultsIndex: r, emptyPlaceholder: true}): a record whose id the collection
\* holds is left as it is; a new record takes its place in comparator order
AddPlaceholder(models, r) ==
  IF \E i \in 1..Len(models) : models[i].resultsIndex = r THEN models
  ELSE SelectSeq(models, LAMBDA m : m.resultsIndex < r)
       \o <<ItemModel(r, TRUE)>>
       \o SelectSeq(models, LAMBDA m : m.resultsIndex > r)

\* _.each(gaps, function(r) { self.add(...) }) from the i-th gap on
RECURSIVE AddPlaceholders(_, _, _)
AddPlaceholders(models, gaps, i) ==
  IF i > Len(gaps) THEN models
  ELSE AddPlaceholders(AddPlaceholder(models, gaps[i]), gaps, i + 1)

\* in _compressGaps: the position after the run of consecutive gaps that starts at i
RECURSIVE RunEnd(_, _, _)
RunEnd(gaps, i, j) ==
  IF j <= Len(gaps) /\ gaps[j] = gaps[i] + (j - i) THEN RunEnd(gaps, i, j + 1) ELSE j

\* _compressGaps(gaps) from the i-th gap on: one {start, end} per run of consecutive gaps
RECURSIVE CompressGaps(_, _)
CompressGaps(gaps, i) ==
  IF i > Len(gaps) THEN <<>>
  ELSE <<[start |-> gaps[i], end |-> gaps[RunEnd(gaps, i, i + 1) - 1]]>>
       \o CompressGaps(gaps, RunEnd(gaps, i, i + 1))

\* updateIndexes(start, end): the collection it leaves, what it returns and what it
\* triggers ('show:missing' is only triggered when the loop found a gap)
UpdateIndexes(col, startArg, endArg) ==
  LET start == IF IsNumber(startArg) THEN startArg[1] ELSE col.currentStartIndex
      end == IF IsNumber(endArg) THEN endArg[1] ELSE col.currentEndIndex + 1
      st == Each([models |-> <<>>, visible |-> 0, currStart |-> Null, currEnd |-> 0,
                  gaps |-> <<>>, lastIdx |-> Null],
                 col.models, start, end, 1)
      gaps == SliceBelowStart(SliceAboveEnd(st.gaps, end), start)
  IN [col |-> [models |-> IF st.gaps # <<>> THEN AddPlaceholders(st.models, gaps, 1)
                          ELSE st.models,
               numVisible |-> st.visible,
               currentStartIndex |-> IF st.currStart = Null THEN 0 ELSE st.currStart[1],
               currentEndIndex |-> st.currEnd],
      start |-> start,
      end |-> end,
      returned |-> st.visible,
      triggered |-> st.gaps # <<>>,
      missing |-> IF st.gaps # <<>> THEN CompressGaps(gaps, 1) ELSE <<>>]

\* no call was made yet
NoCall ==
  [op |-> "none", start |-> 0, end |-> 0, returned |-> 0, triggered |-> FALSE,
   missing |-> <<>>, thrown |-> FALSE]

\* collection.updateIndexes(start, end)
CallUpdateIndexes(startArg, endArg) ==
  /\ \E r \in {UpdateIndexes(things, startArg, endArg)} :
        /\ things' = r.col
        /\ shown' = [op |-> "updateIndexes", start |-> r.start, end |-> r.end,
                     returned |-> r.returned, triggered |-> r.triggered,
                     missing |-> r.missing, thrown |-> FALSE]
  /\ UNCHANGED application

\* collection.showRange(start, end)
CallShowRange(start, end) ==
  /\ IF start < 0 \/ end < start
     THEN /\ shown' = [NoCall EXCEPT !.op = "showRange", !.start = start, !.end = end,
                                      !.thrown = TRUE]
          /\ UNCHANGED things
     ELSE \E r \in {UpdateIndexes(things, Given(start), Given(end + 1))} :
            /\ things' = r.col
            /\ shown' = [op |-> "showRange", start |-> r.start, end |-> r.end,
                         returned |-> r.returned, triggered |-> r.triggered,
                         missing |-> r.missing, thrown |-> FALSE]
  /\ UNCHANGED application

\* the collections of records with a resultsIndex up to MaxIndex, in comparator order:
\* at each index a record, an empty placeholder, or nothing
RECURSIVE ModelsFrom(_, _)
ModelsFrom(kind, i) ==
  IF i > MaxIndex THEN <<>>
  ELSE (IF kind[i] = "none" THEN <<>> ELSE <<ItemModel(i, kind[i] = "placeholder")>>)
       \o ModelsFrom(kind, i + 1)

Collections ==
  { NewCollection(ModelsFrom(kind, 0)) :
      kind \in [0..MaxIndex -> {"none", "record", "placeholder"}] }

(* --------------------------- specification ---------------------------- *)

InitApplication ==
  /\ registry = [s \in SectionSet |-> <<>>]
  /\ warnings = {}
  /\ registered = <<>>
  /\ calls = <<>>
  /\ activated = FALSE
  /\ barbarianRegistry = <<>>
  /\ activations = <<>>
  /\ errors = {}
  /\ raised = FALSE
  /\ behaviours = [x \in {} |-> BehOk]
  /\ refused = {}
  /\ runs = 0
  /\ destroyed = FALSE
  /\ nextKey = 0

Init ==
  /\ InitApplication
  /\ things = NewCollection(<<>>)
  /\ shown = NoCall

\* a caller that issues its next loadModules once the earlier ones have come to rest
Load ==
  /\ \A c \in 1..Len(calls) : Quiescent(calls[c])
  /\ \E config \in Manifests(Len(calls) + 1) : LoadModules(config)

Loaded == \E c \in 1..MaxCalls, s \in SectionSet : RequireCallback(c, s)

Failed == \E c \in 1..MaxCalls, s \in SectionSet : RequireErrback(c, s)

TimedOut == \E c \in 1..MaxCalls, s \in SectionSet : Timeout(c, s)

Next == Load \/ Loaded \/ Failed \/ TimedOut

Spec == Init /\ [][Next]_vars

\* loads whose resolver answers every request with its modules before the timeout,
\* the next one issued once the earlier ones have been answered
LoadPolicy ==
  /\ \A c \in 1..Len(calls) : Answered(calls[c])
  /\ \E config \in PolicyManifests(Len(calls) + 1) : LoadModules(config)

NextPolicy == LoadPolicy \/ Loaded

SpecPolicy == Init /\ [][NextPolicy]_vars

\* one load of the components, answered by the resolver, and the activate() runs
LoadActivation ==
  /\ calls = <<>>
  /\ \E config \in ActivationManifests(1) : LoadModules(config)

Activation ==
  \E beehiveThrows \in BOOLEAN : \E b \in BehaviourChoices(registry) : Activate(b, beehiveThrows)

NextActivate == LoadActivation \/ Loaded \/ Activation

SpecActivate == Init /\ [][NextActivate]_vars

\* a second load, issued after the first activate() run once the first load has been
\* answered
Reload ==
  /\ Len(calls) = 1
  /\ Answered(calls[1])
  /\ runs = 1
  /\ \E config \in ReloadManifests(2) : LoadModules(config)

NextSession == LoadActivation \/ Loaded \/ Activation \/ Reload

\* a session: a load, activate() runs, a later load
SpecSession == Init /\ [][NextSession]_vars

\* a first load, and a second one issued while the first is still pending
LoadOverlap ==
  /\ \A c \in 1..Len(calls) : calls[c].big = "pending"
  /\ \E config \in OverlapManifests(Len(calls) + 1) : LoadModules(config)

NextOverlap == LoadOverlap \/ Loaded \/ Failed

\* two overlapping loads, answered by the resolver in any order
SpecOverlap == Init /\ [][NextOverlap]_vars

\* a collection that holds any records, before its first call
InitList ==
  /\ InitApplication
  /\ things \in Collections
  /\ shown = NoCall

UpdateIndexesCalled ==
  \E startArg \in {NotGiven} \cup {Given(n) : n \in 0..MaxIndex} :
    \E endArg \in {NotGiven} \cup {Given(n) : n \in 0..(MaxIndex + 1)} :
      CallUpdateIndexes(startArg, endArg)

ShowRangeCalled ==
  \E start \in (0 - 1)..MaxIndex : \E end \in 0..MaxIndex : CallShowRange(start, end)

NextList == UpdateIndexesCalled \/ ShowRangeCalled

\* calls of updateIndexes and showRange on a collection of records
SpecList == InitList /\ [][NextList]_vars

NextLifecycle == LoadActivation \/ Loaded \/ Activation \/ Destroy

\* a load, activate() runs and a destroy(), in any order
SpecLifecycle == Init /\ [][NextLifecycle]_vars

\* the first activate() run, any number of components throwing
Cascade ==
  /\ runs = 0
  /\ \E beehiveThrows \in BOOLEAN : \E b \in ThrowChoices(registry) : Activate(b, beehiveThrows)

NextCascade == LoadActivation \/ Loaded \/ Cascade

SpecCascade == Init /\ [][NextCascade]_vars

\* one loadModules call, followed to the end of its requests and timers
LoadFirst == calls = <<>> /\ Load

NextOne == LoadFirst \/ Loaded \/ Failed \/ TimedOut

\* an armed timer fires: setTimeout runs its function once the delay has passed
FairSpec == Init /\ [][NextOne]_vars /\ WF_vars(TimedOut)

(* ------------------------- claims: loading ---------------------------- *)

\* an instance the call c registered is in the registry
HoldsInstanceOf(reg, c) ==
  \E s \in SectionSet : \E i \in 1..Len(reg[s]) : reg[s][i].obj.ver = c

\* C1: when every group of a manifest validates and every identifier resolves to a
\* non-empty value, then in the step in which loadModules resolves every symbolic
\* name of every group is present in its registry and getX returns its instance,
\* for manifests of one group as for manifests of several.
C1_ResolvedLoadRegistersEveryName ==
  [][ \A c \in 1..Len(calls) :
        (calls[c].big = "pending" /\ calls'[c].big = "resolved") =>
          \A s \in DOMAIN calls[c].config :
            \A i \in 1..Len(calls[c].config[s]) :
              LET key    == calls[c].config[s][i].name
                  module == ModuleOf(calls[c].config[s][i].impl)
              IN ~module.falsy =>
                   /\ HasKey(registry', s, key)
                   /\ GetKey(registry', s, key).ver = c ]_vars

C3_UnansweredGroupTimesOut ==
  /\ [](\A c \in 1..MaxCalls : \A s \in SectionSet :
          (GroupOf(c, s) /\ calls[c].timer[s] = "fired" /\ calls[c].req[s] = "outstanding")
            => (calls[c].defer[s] = "rejected" /\ (~calls[c].threw => calls[c].big = "rejected")))
  /\ \A c \in 1..MaxCalls : \A s \in SectionSet :
       (GroupOf(c, s) /\ ~calls[c].threw /\ calls[c].req[s] = "outstanding")
         ~> (GroupOf(c, s) /\ (calls[c].req[s] = "answered" \/ calls[c].big = "rejected"))
  /\ \A c \in 1..MaxCalls :
       (Issued(c) /\ calls[c].big = "pending") ~> (Issued(c) /\ calls[c].big # "pending")

\* the timer of a group fired before its resolver answered, and the call is rejected
C3_Witness ==
  \E c \in 1..Len(calls) : \E s \in Range(calls[c].order) :
    /\ calls[c].timer[s] = "fired"
    /\ calls[c].req[s] = "outstanding"
    /\ calls[c].big = "rejected"

\* C4: when a group of the manifest fails validation, loadModules throws and no
\* resolution request of that call has been dispatched for any group, wherever the
\* invalid group stands among the groups.
C4_ThrowDispatchesNothing ==
  \A c \in 1..Len(calls) : calls[c].threw => calls[c].order = <<>>

\* C5 (as stated): the aggregate outcome settles only after every dispatched group
\* has settled.
C5_AggregateSettlesAfterAllGroups ==
  \A c \in 1..Len(calls) :
    calls[c].big \in {"resolved", "rejected"} =>
      \A s \in Range(calls[c].order) : calls[c].defer[s] # "pending"

\* C5 (amended): the aggregate outcome resolves only when every dispatched group has
\* resolved, and it is rejected as soon as one group is rejected, the remaining groups
\* possibly still pending.
C5_AggregateFollowsGroups ==
  \A c \in 1..Len(calls) :
    ~calls[c].threw =>
      /\ calls[c].big = "resolved" <=>
           \A s \in Range(calls[c].order) : calls[c].defer[s] = "resolved"
      /\ calls[c].big = "rejected" <=>
           \E s \in Range(calls[c].order) : calls[c].defer[s] = "rejected"

\* a call is rejected while one of its groups is still pending
C5_Witness ==
  \E c \in 1..Len(calls) : \E s \in Range(calls[c].order) :
    calls[c].big = "rejected" /\ calls[c].defer[s] = "pending"

\* C6: the outcome of a group is latched on its first settlement: no later resolver
\* answer or timer changes it, a resolver answer to a rejected group registers
\* nothing, and an answered request is never issued again.
C6_GroupOutcomeLatched ==
  [][ \A c \in 1..Len(calls) : \A s \in Range(calls[c].order) :
        /\ calls[c].defer[s] # "pending" => calls'[c].defer[s] = calls[c].defer[s]
        /\ calls[c].big # "pending" => calls'[c].big = calls[c].big
        /\ (calls[c].defer[s] = "rejected" /\ calls'[c].req[s] # calls[c].req[s])
             => (registry' = registry /\ warnings' = warnings)
        /\ calls[c].req[s] = "answered" => calls'[c].req[s] = "answered"
        /\ calls'[c].order = calls[c].order ]_vars

\* the resolver answered a group with its modules after the timer had rejected it,
\* and the timer of a resolved group fired
C6_Witness ==
  \E c \in 1..Len(calls) : \E s, t \in Range(calls[c].order) :
    /\ calls[c].defer[s] = "rejected" /\ calls[c].ret[s] # <<>>
    /\ calls[c].defer[t] = "resolved" /\ calls[c].timer[t] = "fired"

(* ----------------------- claims: registration ------------------------- *)

\* the call c resolves in this step
Resolves(c) == calls[c].big = "pending" /\ calls'[c].big = "resolved"

EntriesOf(reg, section, name) == {i \in 1..Len(reg[section]) : reg[section][i].name = name}

\* C7: after two loadModules calls, the second issued after the first completed, that
\* load the same name in the same group with different non-empty values, getX(name)
\* returns the instance of the second call, the group holds one entry for the name
\* and the overwrite was logged as a warning.
C7_SecondLoadOverwrites ==
  [][ \A c \in 1..Len(calls) : \A d \in 1..Len(calls) :
        (d < c /\ calls[d].big = "resolved" /\ Resolves(c)) =>
          \A s \in DOMAIN calls[c].config \cap DOMAIN calls[d].config :
            \A i \in 1..Len(calls[c].config[s]) : \A j \in 1..Len(calls[d].config[s]) :
              calls[c].config[s][i].name = calls[d].config[s][j].name =>
                LET name == calls[c].config[s][i].name
                IN /\ GetKey(registry', s, name).ver = c
                   /\ Cardinality(EntriesOf(registry', s, name)) = 1
                   /\ [kind |-> "overwrite", section |-> s, key |-> name] \in warnings' ]_vars

\* _registerLoadedModules runs for the groups of call c when it resolves: $.when
\* hands .then() one array per group only when the call has several groups
RegistersOnResolve(c) == Len(calls[c].order) > 1

\* C8 (as stated): when the final instance computed for a name is empty, the load
\* does not fail, the other names of the group are registered, and the content of
\* the registry under that name is left as it was before the call.
C8_EmptyInstanceLeavesNameUntouched ==
  [][ \A c \in 1..Len(calls) :
        (Resolves(c) /\ RegistersOnResolve(c)) =>
          \A s \in Range(calls[c].order) : \A i \in 1..Len(calls[c].config[s]) :
            LET key  == calls[c].config[s][i].name
                inst == CreateInstance(s, key, ModuleOf(calls[c].config[s][i].impl))
            IN IF inst.falsy
               THEN /\ HasKey(registry', s, key) = HasKey(registry, s, key)
                    /\ GetKey(registry', s, key) = GetKey(registry, s, key)
               ELSE GetKey(registry', s, key) = inst ]_vars

\* C8 (amended): when _registerLoadedModules computes an empty final instance for a
\* name, the load does not fail, the other names of the group that have a non-empty
\* instance are registered, a warning is logged, and the name is absent from the
\* registry afterwards: an instance registered earlier under it is removed, not kept.
C8_EmptyInstanceRemovesName ==
  [][ \A c \in 1..Len(calls) :
        (Resolves(c) /\ RegistersOnResolve(c)) =>
          \A s \in Range(calls[c].order) : \A i \in 1..Len(calls[c].config[s]) :
            LET key  == calls[c].config[s][i].name
                inst == CreateInstance(s, key, ModuleOf(calls[c].config[s][i].impl))
            IN IF inst.falsy
               THEN /\ ~HasKey(registry', s, key)
                    /\ [kind |-> "skip", section |-> s, key |-> key] \in warnings'
               ELSE /\ HasKey(registry', s, key)
                    /\ GetKey(registry', s, key) = inst ]_vars

\* a second call computed an empty instance for a name that the first call had
\* registered, and registered the other name of the group
C8_Witness ==
  \E s \in SectionSet :
    /\ [kind |-> "skip", section |-> s, key |-> "A"] \in warnings
    /\ [kind |-> "overwrite", section |-> s, key |-> "A"] \in warnings
    /\ ~HasKey(registry, s, "A")
    /\ HasKey(registry, s, "B") /\ GetKey(registry, s, "B").ver = 2
    /\ Len(calls) = 2 /\ calls[2].big = "resolved"

\* C9: the instance stored for a resolved value follows the policy of its group: in
\* modules it is the resolved value itself; elsewhere it is a construction of the
\* value when the value has a prototype, else the value's own property named after
\* the component when it has one, else the value itself.
C9_InstanceFollowsPolicy ==
  \A s \in SectionSet : \A i \in 1..Len(registry[s]) :
    LET name == registry[s][i].name
        obj  == registry[s][i].obj
    IN /\ obj.ver \in 1..Len(calls)
       /\ s \in DOMAIN calls[obj.ver].config
       /\ \E j \in 1..Len(calls[obj.ver].config[s]) :
            /\ calls[obj.ver].config[s][j].name = name
            /\ calls[obj.ver].config[s][j].impl.shape = obj.shape
       /\ obj.kind = IF s = "modules" THEN "module"
                     ELSE IF obj.shape = "ctor" THEN "constructed"
                     ELSE IF obj.shape \in {"ownA", "ownAnull"} /\ name = "A" THEN "property"
                     ELSE "module"

\* the registries hold a function kept as it is in modules, a construction, an
\* unwrapped property and a value with no property of the component's name
C9_Witness ==
  /\ \E i \in 1..Len(registry["modules"]) :
       registry["modules"][i].obj.shape = "ctor" /\ registry["modules"][i].obj.kind = "module"
  /\ \E s \in SectionSet \ {"modules"} : \E i, j \in 1..Len(registry[s]) :
       /\ registry[s][i].obj.kind = "constructed"
       /\ registry[s][j].obj.kind = "property"
  /\ \E s \in SectionSet \ {"modules"} : \E i \in 1..Len(registry[s]) :
       registry[s][i].obj.shape = "ownA" /\ registry[s][i].obj.kind = "module"

(* ------------------------- claims: activation ------------------------- *)

TierRank(tier) ==
  CASE tier = "beehive" -> 0
    [] tier = "controllers" -> 1
    [] tier = "modules" -> 2
    [] tier = "plugins" -> 3
    [] tier = "widgets" -> 4

\* C10: in every activate() run the BeeHive's own activate is called first and once,
\* then the controllers, the modules, the plugins and the widgets: no component of a
\* later tier is activated before a component of an earlier tier.
C10_ActivationOrderedByTier ==
  /\ activations # <<>> =>
       /\ activations[1].tier = "beehive"
       /\ \A i \in 2..Len(activations) : activations[i].tier # "beehive"
  /\ \A i, j \in 1..Len(activations) :
       i < j => TierRank(activations[i].tier) <= TierRank(activations[j].tier)

\* a run that activated a controller, a module, a plugin and a widget
C10_Witness ==
  \A tier \in ActivationSections :
    \E i \in 1..Len(activations) : activations[i].tier = tier

\* what the activate of the i-th call of the last run did
Did(i) == Behaviour(behaviours, activations[i].tier, activations[i].name).kind

\* the i-th call of the last run went to a component of the tier, and it threw
Threw(i, tier) == activations[i].tier = tier /\ Did(i) = "throws"

\* the component was activated in the last run
Activated(section, name) ==
  \E i \in 1..Len(activations) : activations[i].tier = section /\ activations[i].name = name

\* C11: when the activate of a controller throws, the exception leaves activate() and
\* the call that threw is the last of the run: no controller later in enumeration order
\* and no module, plugin or widget is activated in that run.
C11_ControllerThrowAborts ==
  \A i \in 1..Len(activations) :
    Threw(i, "controllers") =>
      /\ raised
      /\ i = Len(activations)
      /\ \A j \in 1..Len(registry["controllers"]) :
           Activated("controllers", registry["controllers"][j].name) =>
             \E k \in 1..i : activations[k].name = registry["controllers"][j].name
                              /\ activations[k].tier = "controllers"

\* the first of two controllers threw, with modules, plugins and widgets registered
C11_Witness ==
  /\ Len(registry["controllers"]) = 2
  /\ \A s \in {"modules", "plugins", "widgets"} : registry[s] # <<>>
  /\ Len(activations) = 2
  /\ Threw(2, "controllers")
  /\ activations[2].name = registry["controllers"][1].name
  /\ raised

\* the component has a call in the log
ActivatedIn(log, section, name) ==
  \E i \in 1..Len(log) : log[i].tier = section /\ log[i].name = name

\* C12: what the activate of a module, a plugin or a widget throws is caught for that
\* component alone: the run does not end raised, the component is logged, and every
\* other component of its tier and of the later tiers that has an activate is called
\* in the same run.
C12_ThrowIsolated ==
  [][runs' # runs =>
       \A i \in 1..Len(activations') :
         LET tier == activations'[i].tier
             name == activations'[i].name
         IN (/\ tier \in {"modules", "plugins", "widgets"}
             /\ Behaviour(behaviours', tier, name).kind = "throws")
            => /\ ~raised'
               /\ <<tier, name>> \in errors'
               /\ \A y \in ComponentsOf(registry) :
                    (/\ TierRank(y[1]) >= TierRank(tier)
                     /\ HasActivate(Behaviour(behaviours', y[1], y[2])))
                    => ActivatedIn(activations', y[1], y[2])]_vars

\* the first of two modules and a plugin threw; the second module and a widget were called
C12_Witness ==
  /\ Len(registry["modules"]) = 2
  /\ <<"modules", registry["modules"][1].name>> \in errors
  /\ Activated("modules", registry["modules"][2].name)
  /\ \E n \in {"A", "B"} : <<"plugins", n>> \in errors
  /\ \E n \in {"A", "B"} : Activated("widgets", n)
  /\ ~raised

\* C13: when the derived name of a spawned child is already taken in its Container, the
\* collision error leaves activate(): the run ends raised, and the only errors the
\* cascade logged are those thrown by the activate of a component itself.
C13_CollisionRaised ==
  refused # {} =>
    /\ raised
    /\ \A x \in errors : Behaviour(behaviours, x[1], x[2]).kind = "throws"

\* the Container of the other category
OtherSection(section) == IF section = "plugins" THEN "widgets" ELSE "plugins"

\* the Container of the section holds a child object under the name, and the Container
\* of the other category does not hold that object
HoldsChild(reg, section, name) ==
  \E k \in 1..Len(reg[section]) :
    /\ reg[section][k].name = name
    /\ reg[section][k].obj.kind = "child"
    /\ reg[section][k].obj.shape = name
    /\ \A m \in 1..Len(reg[OtherSection(section)]) :
         reg[OtherSection(section)][m].obj # reg[section][k].obj

\* the children the i-th call of the log returned
ChildrenOf(log, b, i) ==
  IF log[i].tier \in {"plugins", "widgets"}
  THEN Behaviour(b, log[i].tier, log[i].name).children
  ELSE <<>>

\* C14 as stated: every child a plugin or widget P returns whose derived name
\* P-(name or key) is free is registered under that name in the Container of P's
\* category, holding the child object, and not in the other Container.
C14_FreeChildRegistered ==
  [][runs' # runs =>
       \A i \in 1..Len(activations') :
         LET section == activations'[i].tier
             children == ChildrenOf(activations', behaviours', i)
         IN \A j \in 1..Len(children) :
              ~ContainerHas(registry[section], ChildName(activations'[i].name, children[j]))
              => HoldsChild(registry', section,
                            ChildName(activations'[i].name, children[j]))]_vars

\* C14, amended: the same for every child that no refused child precedes in the
\* returned set; the children that follow a refused one are not registered.
C14_ChildRegisteredUpToRefusal ==
  [][runs' # runs =>
       \A i \in 1..Len(activations') :
         LET section == activations'[i].tier
             children == ChildrenOf(activations', behaviours', i)
             Free(j) == ~ContainerHas(registry[section],
                                      ChildName(activations'[i].name, children[j]))
         IN \A j \in 1..Len(children) :
              IF \A k \in 1..j : Free(k)
              THEN HoldsChild(registry', section,
                              ChildName(activations'[i].name, children[j]))
              ELSE Free(j) =>
                     ~ContainerHas(registry'[section],
                                   ChildName(activations'[i].name, children[j]))]_vars

\* a plugin A returned two children; the first was refused, the second was free
C14_RefusedThenFree ==
  /\ \E r \in refused : r.category = "plugin" /\ r.name = "A-x"
  /\ Activated("plugins", "A")
  /\ Len(Behaviour(behaviours, "plugins", "A").children) = 2
  /\ Behaviour(behaviours, "plugins", "A").children[2].name = "y"
  /\ ~ContainerHas(registry["plugins"], "A-y")

\* a widget A returned two children and both were registered
C14_Witness ==
  /\ Activated("widgets", "A")
  /\ Len(Behaviour(behaviours, "widgets", "A").children) = 2
  /\ HoldsChild(registry, "widgets", "A-x")
  /\ HoldsChild(registry, "widgets", "A-y")

\* C15: after an activate() run that completed, for every plugin and widget whose
\* activate was called and returned, getPluginOrWidgetByPubSubKey of the key of the
\* view it was activated with returns the instance registered under its name in its
\* own Container, a plugin and a widget of the same name included.
C15_RoundTrip ==
  (runs > 0 /\ ~raised) =>
    \A i \in 1..Len(activations) :
      (activations[i].tier \in {"plugins", "widgets"} /\ Did(i) \in {"ok", "spawn"})
      => GetPluginOrWidgetByPubSubKey(registry, barbarianRegistry, activations[i].view)
           = ContainerGet(registry[activations[i].tier], activations[i].name)

\* the keys a lookup is made with: those handed out, and one that was not
Tokens == 0..(nextKey + 1)

\* C16: getPluginOrWidgetByPubSubKey(token) returns undefined exactly when the
\* Barbarian Registry has no entry for the token, and it throws when the entry names a
\* category whose Container does not hold the name of the entry.
C16_UndefinedOrFatal ==
  \A psk \in Tokens :
    /\ GetPluginOrWidgetByPubSubKey(registry, barbarianRegistry, psk) = Undefined
         <=> psk \notin DOMAIN barbarianRegistry
    /\ (/\ psk \in DOMAIN barbarianRegistry
        /\ ~ContainerHas(registry[ContainerOf(barbarianRegistry[psk].category)],
                         barbarianRegistry[psk].name))
       => GetPluginOrWidgetByPubSubKey(registry, barbarianRegistry, psk) = Eeeek

\* the keys whose entry is category:name
EntriesFor(barb, category, name) ==
  {k \in DOMAIN barb : barb[k] = [category |-> category, name |-> name]}

CategoryOf(section) == IF section = "widgets" THEN "widget" ELSE "plugin"

\* the plugins and widgets whose activate returned in the last run, and the children
\* registered in a Container
Barbarians ==
  { <<activations[i].tier, activations[i].name>> :
      i \in { j \in 1..Len(activations) :
                /\ activations[j].tier \in {"plugins", "widgets"}
                /\ Did(j) \in {"ok", "spawn"} } }
  \cup UNION { { <<s, registry[s][i].name>> :
                   i \in { j \in 1..Len(registry[s]) : registry[s][j].obj.kind = "child" } } :
               s \in {"plugins", "widgets"} }

\* C17: in every state each plugin and widget whose activation completed and each
\* child registered in a Container has exactly one Barbarian Registry entry, of the
\* form category:name, and no step removes an entry.
C17_OneEntryEach ==
  /\ [](\A x \in Barbarians :
          Cardinality(EntriesFor(barbarianRegistry, CategoryOf(x[1]), x[2])) = 1)
  /\ [][\A k \in DOMAIN barbarianRegistry : k \in DOMAIN barbarianRegistry']_vars

\* the last run was left by what the BeeHive's own activate threw
BeeHiveFailed == raised /\ Len(activations) = 1

\* C18: isActivated() is false before any activate() call, and true after an
\* activate() call in which neither the BeeHive's own activate nor a controller threw,
\* however many modules, plugins and widgets threw in it.
C18_ActivatedUnlessControllerFailed ==
  /\ runs = 0 => ~IsActivated(activated)
  /\ (/\ runs > 0
      /\ ~BeeHiveFailed
      /\ \A i \in 1..Len(activations) : ~Threw(i, "controllers"))
     => IsActivated(activated)

\* a run in which a module, a plugin and a widget threw
C18_Witness ==
  /\ runs = 1
  /\ \A s \in {"modules", "plugins", "widgets"} : \E x \in errors : x[1] = s
  /\ IsActivated(activated)

\* a load was issued and every load issued has resolved
LoadingCompleted == calls # <<>> /\ \A c \in 1..Len(calls) : calls[c].big = "resolved"

\* C19: the lifecycle only advances: an activation cascade runs at most once and only
\* when loading has completed, the activation flag is never taken back, and after
\* destroy() no step changes the registries or the activation flag.
C19_LifecycleOnlyAdvances ==
  [][/\ runs' # runs => (runs = 0 /\ LoadingCompleted)
     /\ activated => activated'
     /\ destroyed => /\ registry' = registry
                     /\ barbarianRegistry' = barbarianRegistry
                     /\ activated' = activated]_vars

\* C20: every plugin and widget is activated with a hardened view obtained for that
\* call alone: a view no other call of the run was given and that did not exist before
\* the run, never the BeeHive or the Application; only controllers are given the
\* Application, and only controllers and modules are given the BeeHive.
C20_TrustTiers ==
  [][runs' # runs =>
       \A i \in 1..Len(activations') :
         LET call == activations'[i]
         IN /\ call.tier \in {"plugins", "widgets"} =>
                 /\ call.arg = "hardened"
                 /\ call.view > nextKey
                 /\ call.view \notin DOMAIN barbarianRegistry
                 /\ \A j \in 1..Len(activations') :
                      j # i => activations'[j].view # call.view
            /\ call.arg = "beehive, app" => call.tier = "controllers"
            /\ (call.arg \in {"beehive", "beehive, app"} /\ call.tier # "beehive")
               => call.tier \in {"controllers", "modules"}
            /\ call.tier = "controllers" => call.arg = "beehive, app"
            /\ call.tier = "modules" => call.arg = "beehive"]_vars

\* a second run that activated a controller, a module, two plugins and a widget
C20_Witness ==
  /\ runs = 2
  /\ \A s \in ActivationSections : \E i \in 1..Len(activations) : activations[i].tier = s
  /\ Cardinality({i \in 1..Len(activations) : activations[i].tier = "plugins"}) >= 2

(* ------------------------ claims: interleaving ------------------------ *)

\* the place of a section in the order controllers, modules, services, objects,
\* plugins, widgets
FixedRank(section) ==
  CASE section = "controllers" -> 1
    [] section = "modules" -> 2
    [] section = "services" -> 3
    [] section = "objects" -> 4
    [] section = "plugins" -> 5
    [] section = "widgets" -> 6

\* the step in which the last pending group of the call c resolves
AllResolvedStep(c) ==
  /\ c \in 1..Len(calls)
  /\ calls[c].big = "pending"
  /\ calls'[c].big = "resolved"
  /\ \A s \in Range(calls[c].order) : calls'[c].defer[s] = "resolved"

\* C21: a loadModules call changes no registry while one of its groups is pending or
\* after one of them has rejected, and in the step in which its last group resolves
\* all its groups are registered, in the order controllers, modules, services,
\* objects, plugins, widgets.
C21_RegistrationAllOrNothing ==
  [][/\ (registry' # registry \/ warnings' # warnings \/ registered' # registered)
        => \E c \in 1..Len(calls) : AllResolvedStep(c)
     /\ \A c \in 1..Len(calls) :
          AllResolvedStep(c) =>
            /\ Range(registered') = Range(calls[c].order)
            /\ \A i, j \in 1..Len(registered') :
                 i < j => FixedRank(registered'[i]) < FixedRank(registered'[j])]_vars

\* C22: when two loadModules calls overlap and both load the name A in a group, the
\* instance registered under A once both have resolved is that of the second call,
\* in whatever order the resolver answered.
C22_LastIssuedWins ==
  (/\ Len(calls) = 2
   /\ calls[1].big = "resolved"
   /\ calls[2].big = "resolved")
  => \A s \in Range(calls[1].order) \cap Range(calls[2].order) :
       GetKey(registry, s, "A").ver = 2

(* ------------------------- claims: spawned children ------------------------- *)

\* the calls of the log that went to the component
CallsTo(log, section, name) ==
  {i \in 1..Len(log) : log[i].tier = section /\ log[i].name = name}

\* no controller threw in the run of the log
NoControllerFailed(log, b) ==
  \A i \in 1..Len(log) :
    ~(log[i].tier = "controllers" /\ Behaviour(b, "controllers", log[i].name).kind = "throws")

\* a component the run added to the Container of the section is not called in that run
SpawnedNotCalled(section) ==
  \A k \in 1..Len(registry'[section]) :
    ~ContainerHas(registry[section], registry'[section][k].name)
    => CallsTo(activations', section, registry'[section][k].name) = {}

\* every component registered before the run that has an activate is called once in it
RegisteredCalledOnce ==
  \A y \in ComponentsOf(registry) :
    HasActivate(Behaviour(behaviours', y[1], y[2]))
    => Cardinality(CallsTo(activations', y[1], y[2])) = 1

\* C23 as stated: a child spawned in an activate() run gets no activate call from that
\* run, and when no controller fails every component registered before the run that
\* exposes activate gets exactly one activate call in it.
C23_SnapshotCascade ==
  [][runs' # runs =>
       /\ \A section \in ActivationSections : SpawnedNotCalled(section)
       /\ NoControllerFailed(activations', behaviours') => RegisteredCalledOnce]_vars

\* C23, amended: the same when neither the BeeHive's own activate nor a controller
\* fails; a run that beehive.activate leaves calls no component at all.
C23_SnapshotCascadeUnlessRaised ==
  [][runs' # runs =>
       /\ \A section \in ActivationSections : SpawnedNotCalled(section)
       /\ ~raised' => RegisteredCalledOnce
       /\ (raised' /\ NoControllerFailed(activations', behaviours'))
            => \A y \in ComponentsOf(registry) : CallsTo(activations', y[1], y[2]) = {}]_vars

\* a first run in which plugin A was called once and spawned A-x, which was registered
\* and not called, and a widget was called after it
C23_Witness ==
  /\ runs = 1
  /\ ~raised
  /\ Cardinality(CallsTo(activations, "plugins", "A")) = 1
  /\ HoldsChild(registry, "plugins", "A-x")
  /\ CallsTo(activations, "plugins", "A-x") = {}
  /\ \E i \in 1..Len(activations) : activations[i].tier = "widgets"

\* the qualified name category:name of a refused child
QualifiedName(r) == [category |-> r.category, name |-> r.name]

\* the component the refused child collided with is registered as it was before the run
RefusalKeepsComponent(r) ==
  /\ ContainerHas(registry[ContainerOf(r.category)], r.name)
  /\ ContainerGet(registry'[ContainerOf(r.category)], r.name)
       = ContainerGet(registry[ContainerOf(r.category)], r.name)

\* C24: when a spawned child is refused because its derived name is taken, the Barbarian
\* Registry holds no entry that maps the refused child's token to the qualified name of
\* the component that holds the name, and that component stays registered unchanged.
C24_RefusalChangesNothing ==
  [][runs' # runs =>
       \A r \in refused' :
         /\ ~(/\ r.id \in DOMAIN barbarianRegistry'
              /\ barbarianRegistry'[r.id] = QualifiedName(r))
         /\ RefusalKeepsComponent(r)]_vars

(* --------------------- claims: ListOfThingsCollection --------------------- *)

\* the indexes reported through 'show:missing' by the last call
Reported ==
  UNION { shown.missing[i].start .. shown.missing[i].end : i \in 1..Len(shown.missing) }

\* the last call ran updateIndexes(shown.start, shown.end)
Updated == shown.op \in {"updateIndexes", "showRange"} /\ ~shown.thrown

\* a record is visible exactly when it is no placeholder and lies in [start, end)
VisibleInRange ==
  \A i \in 1..Len(things.models) :
    things.models[i].visible
      <=> (/\ ~things.models[i].emptyPlaceholder
           /\ shown.start <= things.models[i].resultsIndex
           /\ things.models[i].resultsIndex < shown.end)

\* the count returned is the number of visible records
CountsVisible ==
  shown.returned = Cardinality({i \in 1..Len(things.models) : things.models[i].visible})

\* C25: after updateIndexes(start, end) a record is visible exactly when it is no empty
\* placeholder and start <= resultsIndex < end, the count returned is the number of
\* visible records, and every index reported through 'show:missing' is filled with an
\* empty placeholder and lies in start..end, none below start and none beyond end.
C25_UpdateIndexes ==
  Updated =>
    /\ VisibleInRange
    /\ CountsVisible
    /\ \A g \in Reported :
         /\ shown.start <= g /\ g <= shown.end
         /\ \E i \in 1..Len(things.models) :
              /\ things.models[i].resultsIndex = g
              /\ things.models[i].emptyPlaceholder

====
